---- MODULE Spec2Model ----
(***************************************************************************)
(* Model of the durable store of src-tauri/src/lib.rs: preferences and     *)
(* recovery records written with write-temp-then-rename, read back, and    *)
(* retired by the retention sweep.                                         *)
(*                                                                         *)
(* Text (file content, filenames, JSON strings) is a run-length encoded    *)
(* byte string: a sequence of runs [c, n] meaning n copies of byte c, with  *)
(* no two adjacent runs of the same byte.  Sizes are byte counts, so the   *)
(* 10 MiB cap keeps its real value.                                        *)
(***************************************************************************)
EXTENDS Integers, Sequences, FiniteSets, TLC

\* ------------------------------------------------------------------ text
R(c, n) == [c |-> c, n |-> n]

\* concatenation of two texts, merging the runs that meet
Cat(a, b) ==
  IF a = <<>> THEN b
  ELSE IF b = <<>> THEN a
  ELSE IF a[Len(a)].c = b[1].c
       THEN SubSeq(a, 1, Len(a) - 1) \o <<R(b[1].c, a[Len(a)].n + b[1].n)>> \o Tail(b)
       ELSE a \o b

RECURSIVE Str(_)
\* the text spelled by a tuple of one-byte strings
Str(cs) == IF cs = <<>> THEN <<>> ELSE Cat(<<R(Head(cs), 1)>>, Str(Tail(cs)))

\* n copies of byte c
Rep(c, n) == IF n = 0 THEN <<>> ELSE <<R(c, n)>>

RECURSIVE Size(_)
\* str::len / String::len: the number of bytes
Size(t) == IF t = <<>> THEN 0 ELSE Head(t).n + Size(Tail(t))

RECURSIVE TakeBytes(_, _)
\* the first k bytes of t (all of t when it is shorter)
TakeBytes(t, k) ==
  IF k <= 0 \/ t = <<>> THEN <<>>
  ELSE IF Head(t).n <= k THEN <<Head(t)>> \o TakeBytes(Tail(t), k - Head(t).n)
  ELSE <<R(Head(t).c, k)>>

RECURSIVE DropBytes(_, _)
\* t without its first k bytes
DropBytes(t, k) ==
  IF k <= 0 \/ t = <<>> THEN t
  ELSE IF Head(t).n <= k THEN DropBytes(Tail(t), k - Head(t).n)
  ELSE <<R(Head(t).c, Head(t).n - k)>> \o Tail(t)

\* the first byte of a non-empty text, and the text after it
FirstByte(t) == Head(t).c
AfterFirst(t) == DropBytes(t, 1)

QUOTE == "\""
BSL == "\\"
NL == "\n"
SP == " "

Digits == {"0", "1", "2", "3", "4", "5", "6", "7", "8", "9"}
Alnum ==
  Digits \cup {"a", "b", "c", "d", "e", "f", "g", "h", "i", "j", "k", "l", "m",
               "n", "o", "p", "q", "r", "s", "t", "u", "v", "w", "x", "y", "z"}
         \cup {"A", "B", "C", "D", "E", "F", "G", "H", "I", "J", "K", "L", "M",
               "N", "O", "P", "Q", "R", "S", "T", "U", "V", "W", "X", "Y", "Z"}
WordBytes == Alnum \cup {"_", "-"}

\* ------------------------------------------------------- serde_json::Value
\* A Value is [t, v]: t is the variant and v its payload: the decimal text of
\* a Number, the text of a String, the elements of an Array, the entries
\* [k, x] of an Object in key order (Map is a BTreeMap).
JNull == [t |-> "null", v |-> <<>>]
JTrue == [t |-> "true", v |-> <<>>]
JFalse == [t |-> "false", v |-> <<>>]
JNum(digits) == [t |-> "num", v |-> digits]
JStr(s) == [t |-> "str", v |-> s]
JArr(xs) == [t |-> "arr", v |-> xs]
JObj(es) == [t |-> "obj", v |-> es]
Entry(k, x) == [k |-> k, x |-> x]

NullText == Str(<<"n", "u", "l", "l">>)
TrueText == Str(<<"t", "r", "u", "e">>)
FalseText == Str(<<"f", "a", "l", "s", "e">>)

RECURSIVE EscapeRun(_, _)
\* n copies of the two-byte escape \e
EscapeRun(e, n) == IF n = 0 THEN <<>> ELSE Cat(Str(<<BSL, e>>), EscapeRun(e, n - 1))

\* a writer of string contents that escapes nothing
RawStr(s) == s

RECURSIVE EscapeStr(_)
\* serde_json's format_escaped_str_contents: quote, backslash and newline
\* are written as two-byte escapes, every other byte as itself
EscapeStr(s) ==
  IF s = <<>> THEN <<>>
  ELSE LET r == Head(s)
           e == IF r.c = QUOTE THEN EscapeRun(QUOTE, r.n)
                ELSE IF r.c = BSL THEN EscapeRun(BSL, r.n)
                ELSE IF r.c = NL THEN EscapeRun("n", r.n)
                ELSE <<r>>
       IN  Cat(e, EscapeStr(Tail(s)))

\* a JSON string literal
QuoteStr(s) == Cat(Str(<<QUOTE>>), Cat(EscapeStr(s), Str(<<QUOTE>>)))

RECURSIVE to_string(_), CompactElems(_), CompactEntries(_)
\* serde_json::to_string: the compact form
to_string(x) ==
  CASE x.t = "null" -> NullText
    [] x.t = "true" -> TrueText
    [] x.t = "false" -> FalseText
    [] x.t = "num" -> x.v
    [] x.t = "str" -> QuoteStr(x.v)
    [] x.t = "arr" -> Cat(Str(<<"[">>), Cat(CompactElems(x.v), Str(<<"]">>)))
    [] x.t = "obj" -> Cat(Str(<<"{">>), Cat(CompactEntries(x.v), Str(<<"}">>)))

CompactElems(xs) ==
  IF xs = <<>> THEN <<>>
  ELSE IF Len(xs) = 1 THEN to_string(xs[1])
  ELSE Cat(to_string(xs[1]), Cat(Str(<<",">>), CompactElems(Tail(xs))))

CompactEntries(es) ==
  IF es = <<>> THEN <<>>
  ELSE LET one == Cat(QuoteStr(es[1].k), Cat(Str(<<":">>), to_string(es[1].x)))
       IN  IF Len(es) = 1 THEN one
           ELSE Cat(one, Cat(Str(<<",">>), CompactEntries(Tail(es))))

\* PrettyFormatter's indent: two spaces per level
Indent(level) == Rep(SP, 2 * level)

RECURSIVE Pretty(_, _), PrettyElems(_, _), PrettyEntries(_, _)
\* the pretty form of x when its container is at the given level
Pretty(x, level) ==
  CASE x.t = "null" -> NullText
    [] x.t = "true" -> TrueText
    [] x.t = "false" -> FalseText
    [] x.t = "num" -> x.v
    [] x.t = "str" -> QuoteStr(x.v)
    [] x.t = "arr" ->
         IF x.v = <<>> THEN Str(<<"[", "]">>)
         ELSE Cat(Str(<<"[", NL>>),
              Cat(PrettyElems(x.v, level + 1),
              Cat(Str(<<NL>>), Cat(Indent(level), Str(<<"]">>)))))
    [] x.t = "obj" ->
         IF x.v = <<>> THEN Str(<<"{", "}">>)
         ELSE Cat(Str(<<"{", NL>>),
              Cat(PrettyEntries(x.v, level + 1),
              Cat(Str(<<NL>>), Cat(Indent(level), Str(<<"}">>)))))

PrettyElems(xs, level) ==
  LET one == Cat(Indent(level), Pretty(xs[1], level))
  IN  IF Len(xs) = 1 THEN one
      ELSE Cat(one, Cat(Str(<<",", NL>>), PrettyElems(Tail(xs), level)))

PrettyEntries(es, level) ==
  LET one == Cat(Indent(level),
             Cat(QuoteStr(es[1].k),
             Cat(Str(<<":", SP>>), Pretty(es[1].x, level))))
  IN  IF Len(es) = 1 THEN one
      ELSE Cat(one, Cat(Str(<<",", NL>>), PrettyEntries(Tail(es), level)))

\* serde_json::to_string_pretty
to_string_pretty(x) == Pretty(x, 0)

\* --------------------------------------------------- serde_json::from_str
\* the modelled bytes in ascending byte order
Ascii == <<"\t", NL, "\r", SP, QUOTE, ",", "-", ".", "/",
           "0", "1", "2", "3", "4", "5", "6", "7", "8", "9", ":",
           "A", "B", "C", "D", "E", "F", "G", "H", "I", "J", "K", "L", "M",
           "N", "O", "P", "Q", "R", "S", "T", "U", "V", "W", "X", "Y", "Z",
           "[", BSL, "]", "_",
           "a", "b", "c", "d", "e", "f", "g", "h", "i", "j", "k", "l", "m",
           "n", "o", "p", "q", "r", "s", "t", "u", "v", "w", "x", "y", "z",
           "{", "}">>
ByteRank(c) == CHOOSE i \in DOMAIN Ascii : Ascii[i] = c

RECURSIVE StrLess(_, _)
\* Ord for String: byte-wise lexicographic order (the order of Map's keys)
StrLess(a, b) ==
  IF b = <<>> THEN FALSE
  ELSE IF a = <<>> THEN TRUE
  ELSE LET ra == Head(a)
           rb == Head(b)
       IN  IF ra.c # rb.c THEN ByteRank(ra.c) < ByteRank(rb.c)
           ELSE IF ra.n = rb.n THEN StrLess(Tail(a), Tail(b))
           ELSE IF ra.n < rb.n THEN StrLess(Tail(a), DropBytes(b, ra.n))
           ELSE StrLess(DropBytes(a, rb.n), Tail(b))

RECURSIVE MapInsert(_, _, _)
\* Map::insert: replaces the value of an equal key, keeps the keys ordered
MapInsert(es, k, x) ==
  IF es = <<>> THEN <<Entry(k, x)>>
  ELSE IF es[1].k = k THEN <<Entry(k, x)>> \o Tail(es)
  ELSE IF StrLess(k, es[1].k) THEN <<Entry(k, x)>> \o es
  ELSE <<es[1]>> \o MapInsert(Tail(es), k, x)

\* the outcome of a parsing step: the value read and the text after it
ParseOk(val, rest) == [ok |-> TRUE, val |-> val, rest |-> rest]
ParseFail == [ok |-> FALSE, val |-> JNull, rest |-> <<>>]

RECURSIVE SkipWs(_)
\* Deserializer::parse_whitespace
SkipWs(t) == IF t # <<>> /\ Head(t).c \in {SP, NL, "\t", "\r"} THEN SkipWs(Tail(t)) ELSE t

StartsWith(t, lit) == TakeBytes(t, Size(lit)) = lit

RECURSIVE DigitPrefix(_)
\* the leading decimal digits of t
DigitPrefix(t) ==
  IF t # <<>> /\ Head(t).c \in Digits THEN <<Head(t)>> \o DigitPrefix(Tail(t)) ELSE <<>>

\* the number read from the digits ds of a literal, with the text after it
NumberOf(neg, ds, rest) ==
  IF ds = <<>> THEN ParseFail
  ELSE IF FirstByte(ds) = "0" /\ Size(ds) > 1 THEN ParseFail
  ELSE IF rest # <<>> /\ FirstByte(rest) \in {".", "e", "E"} THEN ParseFail
  ELSE IF neg /\ ds = Str(<<"0">>) THEN ParseOk(JNum(Str(<<"-", "0", ".", "0">>)), rest)
  ELSE ParseOk(JNum(IF neg THEN Cat(Str(<<"-">>), ds) ELSE ds), rest)

\* Deserializer::parse_integer for the integers of the model: an optional
\* minus sign and decimal digits; a leading zero may not be followed by a
\* digit; fractions and exponents are outside the modelled documents
ParseNumber(t) ==
  IF FirstByte(t) = "-"
  THEN NumberOf(TRUE, DigitPrefix(AfterFirst(t)),
                DropBytes(AfterFirst(t), Size(DigitPrefix(AfterFirst(t)))))
  ELSE NumberOf(FALSE, DigitPrefix(t), DropBytes(t, Size(DigitPrefix(t))))

\* the byte an escape letter stands for, "" when it is no escape
Unescape(e) ==
  CASE e = QUOTE -> QUOTE
    [] e = BSL -> BSL
    [] e = "/" -> "/"
    [] e = "n" -> NL
    [] e = "t" -> "\t"
    [] e = "r" -> "\r"
    [] OTHER -> ""

RECURSIVE ParseStrBody(_, _)
\* Read::parse_str after the opening quote: acc is the text decoded so far
ParseStrBody(t, acc) ==
  IF t = <<>> THEN ParseFail
  ELSE IF FirstByte(t) = QUOTE THEN ParseOk(acc, AfterFirst(t))
  ELSE IF FirstByte(t) = BSL THEN
    IF AfterFirst(t) = <<>> THEN ParseFail
    ELSE IF Unescape(FirstByte(AfterFirst(t))) = "" THEN ParseFail
    ELSE ParseStrBody(DropBytes(t, 2), Cat(acc, <<R(Unescape(FirstByte(AfterFirst(t))), 1)>>))
  ELSE IF FirstByte(t) \in {NL, "\t", "\r"} THEN ParseFail
  ELSE ParseStrBody(Tail(t), Cat(acc, <<Head(t)>>))

\* a String value from the outcome of parse_str
StrValue(r) == IF r.ok THEN ParseOk(JStr(r.val), r.rest) ELSE ParseFail

RECURSIVE ParseValue(_), ValueAt(_), ParseElems(_, _), ElemsAfter(_, _),
          ParseMembers(_, _), MemberKey(_, _), MembersAfter(_, _, _)
\* Deserializer::deserialize_any for Value
ParseValue(text) == ValueAt(SkipWs(text))

\* the value that starts at the first byte of t
ValueAt(t) ==
  IF t = <<>> THEN ParseFail
  ELSE CASE FirstByte(t) = "n" -> IF StartsWith(t, NullText)
                                  THEN ParseOk(JNull, DropBytes(t, 4)) ELSE ParseFail
         [] FirstByte(t) = "t" -> IF StartsWith(t, TrueText)
                                  THEN ParseOk(JTrue, DropBytes(t, 4)) ELSE ParseFail
         [] FirstByte(t) = "f" -> IF StartsWith(t, FalseText)
                                  THEN ParseOk(JFalse, DropBytes(t, 5)) ELSE ParseFail
         [] FirstByte(t) = "-" \/ FirstByte(t) \in Digits -> ParseNumber(t)
         [] FirstByte(t) = QUOTE -> StrValue(ParseStrBody(AfterFirst(t), <<>>))
         [] FirstByte(t) = "[" -> ParseElems(SkipWs(AfterFirst(t)), <<>>)
         [] FirstByte(t) = "{" -> ParseMembers(SkipWs(AfterFirst(t)), <<>>)
         [] OTHER -> ParseFail

\* SeqAccess: the elements after acc, up to the closing bracket
ParseElems(t, acc) ==
  IF t = <<>> THEN ParseFail
  ELSE IF acc = <<>> /\ FirstByte(t) = "]" THEN ParseOk(JArr(<<>>), AfterFirst(t))
  ELSE ElemsAfter(ParseValue(t), acc)

\* the element r has been read: a comma or the closing bracket follows
ElemsAfter(r, acc) ==
  IF ~r.ok \/ SkipWs(r.rest) = <<>> THEN ParseFail
  ELSE IF FirstByte(SkipWs(r.rest)) = ","
  THEN ParseElems(AfterFirst(SkipWs(r.rest)), Append(acc, r.val))
  ELSE IF FirstByte(SkipWs(r.rest)) = "]"
  THEN ParseOk(JArr(Append(acc, r.val)), AfterFirst(SkipWs(r.rest)))
  ELSE ParseFail

\* MapAccess: the entries after acc, up to the closing brace
ParseMembers(t, acc) ==
  IF t = <<>> THEN ParseFail
  ELSE IF acc = <<>> /\ FirstByte(t) = "}" THEN ParseOk(JObj(<<>>), AfterFirst(t))
  ELSE IF SkipWs(t) # <<>> /\ FirstByte(SkipWs(t)) = QUOTE
       THEN MemberKey(ParseStrBody(AfterFirst(SkipWs(t)), <<>>), acc)
       ELSE ParseFail

\* the key k has been read: a colon and the value follow
MemberKey(k, acc) ==
  IF k.ok /\ SkipWs(k.rest) # <<>> /\ FirstByte(SkipWs(k.rest)) = ":"
  THEN MembersAfter(k, ParseValue(AfterFirst(SkipWs(k.rest))), acc)
  ELSE ParseFail

\* the entry k: r has been read: a comma or the closing brace follows
MembersAfter(k, r, acc) ==
  IF ~r.ok \/ SkipWs(r.rest) = <<>> THEN ParseFail
  ELSE IF FirstByte(SkipWs(r.rest)) = ","
  THEN ParseMembers(AfterFirst(SkipWs(r.rest)), MapInsert(acc, k.val, r.val))
  ELSE IF FirstByte(SkipWs(r.rest)) = "}"
  THEN ParseOk(JObj(MapInsert(acc, k.val, r.val)), AfterFirst(SkipWs(r.rest)))
  ELSE ParseFail

\* one value, then only whitespace
Complete(r) == IF r.ok /\ SkipWs(r.rest) = <<>> THEN ParseOk(r.val, <<>>) ELSE ParseFail

\* serde_json::from_str::<Value>
from_str(text) == Complete(ParseValue(text))

\* ------------------------------------------------------------ validation
RECURSIVE WordRuns(_)
\* the number of leading runs of t made of [a-zA-Z0-9_-]
WordRuns(t) == IF t # <<>> /\ Head(t).c \in WordBytes THEN 1 + WordRuns(Tail(t)) ELSE 0

\* the pattern without its end anchor: a non-empty stem, then anything
is_match_unanchored(t) == WordRuns(t) >= 1

\* Regex ^[a-zA-Z0-9_-]+(\.[a-zA-Z0-9]+)?$ : a non-empty stem, then
\* optionally one dot and a non-empty alphanumeric extension, then the end
is_match(t) ==
  LET k == WordRuns(t)
  IN  /\ k >= 1
      /\ \/ k = Len(t)
         \/ /\ k + 2 <= Len(t)
            /\ t[k + 1] = R(".", 1)
            /\ \A i \in (k + 2)..Len(t) : t[i].c \in Alnum

MaxFilenameLen == 100

\* validate_filename: "ok" or the reason of the rejection
validate_filename(filename) ==
  IF filename = <<>> THEN "Filename cannot be empty"
  ELSE IF Size(filename) > MaxFilenameLen THEN "Filename too long (max 100 characters)"
  ELSE IF ~is_match(filename)
  THEN "Invalid filename: only alphanumeric characters, dashes, underscores, and dots allowed"
  ELSE "ok"

S_light == Str(<<"l", "i", "g", "h", "t">>)
S_dark == Str(<<"d", "a", "r", "k">>)
S_system == Str(<<"s", "y", "s", "t", "e", "m">>)
S_theme == Str(<<"t", "h", "e", "m", "e">>)

\* a validator that lets every theme pass
any_theme(theme) == "ok"

\* validate_theme
validate_theme(theme) ==
  IF theme \in {S_light, S_dark, S_system} THEN "ok"
  ELSE "Invalid theme: must be 'light', 'dark', or 'system'"

\* a default record with another theme
LightPreferences == [theme |-> S_light]

\* AppPreferences::default
DefaultPreferences == [theme |-> S_system]

\* Serialize for AppPreferences: a map with the one field theme
PreferencesValue(preferences) == JObj(<<Entry(S_theme, JStr(preferences.theme))>>)

RECURSIVE FieldOf(_, _)
\* the value of the entry of es with key k, or JNull when there is none
FieldOf(es, k) ==
  IF es = <<>> THEN JNull
  ELSE IF es[1].k = k THEN es[1].x
  ELSE FieldOf(Tail(es), k)

\* Deserialize for AppPreferences from a JSON text: the text must be a map
\* with a string field theme (other fields are ignored), or a one-element
\* sequence holding the theme (a repeated theme field, which serde rejects,
\* occurs in no text of the model); r is the outcome of from_str
PreferencesOf(r) ==
  IF r.ok /\ r.val.t = "obj" /\ FieldOf(r.val.v, S_theme).t = "str"
  THEN [ok |-> TRUE, val |-> [theme |-> FieldOf(r.val.v, S_theme).v]]
  ELSE IF r.ok /\ r.val.t = "arr" /\ Len(r.val.v) = 1 /\ r.val.v[1].t = "str"
  THEN [ok |-> TRUE, val |-> [theme |-> r.val.v[1].v]]
  ELSE [ok |-> FALSE, val |-> DefaultPreferences]

\* a reader that ignores the text and yields the default record
IgnoreStr(text) == [ok |-> TRUE, val |-> DefaultPreferences]

\* serde_json::from_str::<AppPreferences>
PreferencesFromStr(text) == PreferencesOf(from_str(text))

\* ------------------------------------------------------------------ paths
S_json == Str(<<"j", "s", "o", "n">>)
S_tmp == Str(<<"t", "m", "p">>)

Path(dir, name) == [dir |-> dir, name |-> name]

\* the directories: app_data_dir() and app_data_dir()/recovery
DataDir == "data"
RecoveryDir == "recovery"

\* the index of the last run of dots of a name, 0 when it has none
LastDot(name) ==
  LET ds == {i \in DOMAIN name : name[i].c = "."}
  IN  IF ds = {} THEN 0 ELSE CHOOSE i \in ds : \A j \in ds : j <= i

\* Path::extension: the bytes after the last dot of the file name (a name
\* that only starts with a dot has none)
extension(path) ==
  LET i == LastDot(path.name)
  IN  IF i = 0 \/ (i = 1 /\ path.name[1].n = 1) THEN <<>>
      ELSE SubSeq(path.name, i + 1, Len(path.name))

\* a with_extension that cuts the file name at its first dot
with_extension_at_first_dot(path, ext) ==
  LET ds == {i \in DOMAIN path.name : path.name[i].c = "."}
      stem == IF ds = {} THEN path.name
              ELSE SubSeq(path.name, 1, (CHOOSE i \in ds : \A j \in ds : i <= j) - 1)
  IN  Path(path.dir, Cat(stem, Cat(Str(<<".">>), ext)))

\* Path::with_extension: the file name up to its last dot, then the new
\* extension
with_extension(path, ext) ==
  LET i == LastDot(path.name)
      stem == IF i = 0 \/ (i = 1 /\ path.name[1].n = 1) THEN path.name
              ELSE TakeBytes(path.name, Size(SubSeq(path.name, 1, i)) - 1)
  IN  Path(path.dir, Cat(stem, Cat(Str(<<".">>), ext)))

\* app_data_dir.join("preferences.json")
PrefsPath == Path(DataDir, Cat(Str(<<"p", "r", "e", "f", "e", "r", "e", "n", "c", "e", "s">>), Cat(Str(<<".">>), S_json)))

\* recovery_dir.join(format!("{filename}.json"))
RecoveryPath(filename) == Path(RecoveryDir, Cat(filename, Cat(Str(<<".">>), S_json)))

\* ------------------------------------------------------------- the state
VARIABLES
  clock,      \* SystemTime::now(), in seconds since UNIX_EPOCH
  dirs,       \* the directories that exist
  names,      \* the directory entries: path -> inode number
  inodes,     \* inode number -> [data, mtime]
  proc,       \* the command invocations in flight, one per caller
  started,    \* the number of commands invoked so far
  faults,     \* the number of I/O failures and stops that have happened
  offered,    \* path -> the complete contents ever meant for it
  committed,  \* path -> the record of its last successful save
  args,       \* the arguments each caller passes to its commands
  webview_windows,   \* the labels of the webview windows that exist
  visible,           \* whether the quick pane is on screen
  PREVIOUS_APP_PID,  \* the static of lib.rs:26
  frontmost,         \* the pid of the frontmost application, if any
  running,           \* the pids of the running applications
  main,              \* the quick pane command in flight on the main thread
  last,              \* the last quick pane command that returned
  shown_with         \* frontmost when the quick pane last came on screen

\* the state of the quick pane
quick_pane == <<webview_windows, visible, PREVIOUS_APP_PID, frontmost, running,
                main, last, shown_with>>

vars == <<clock, dirs, names, inodes, proc, started, faults, offered, committed, args,
          quick_pane>>

\* the callers that may have a command in flight
Procs == {1, 2}

MAX_RECOVERY_DATA_BYTES == 10485760
SevenDays == 7 * 24 * 60 * 60

\* bounds of the exploration
MaxOps == 2
MaxFaults == 1
MaxChunks == 2
MaxTicks == 1
StartTime == 2000000

NoPath == Path("", <<>>)
NoResult == [type |-> "none"]
Ok(value) == [type |-> "Ok", value |-> value]
Unit == "()"
\* the Err(String) of the preferences commands
ErrString(message) == [type |-> "Err", message |-> message]
FileNotFound == [type |-> "FileNotFound"]
ValidationError(message) == [type |-> "ValidationError", message |-> message]
DataTooLarge(max_bytes) == [type |-> "DataTooLarge", max_bytes |-> max_bytes]
IoError == [type |-> "IoError"]
ParseError == [type |-> "ParseError"]

\* a caller with no command in flight.  Beside the locals of the commands
\* the record keeps, for the properties: opened, the content the file had
\* when a load opened it; before, what the final path held when a save
\* began; removed, the files a sweep removed with their modification
\* times; failed, the entries whose metadata or removal failed in a sweep,
\* the file being gone included
Idle == [op |-> "none", pc |-> "idle", filename |-> <<>>, data |-> JNull,
         preferences |-> DefaultPreferences, fd |-> 0, off |-> 0, calls |-> 0,
         contents |-> <<>>, opened |-> <<>>, now |-> 0, entries |-> {},
         path |-> NoPath, removed_count |-> 0, removed |-> {}, failed |-> {},
         before |-> [exists |-> FALSE, data |-> <<>>], result |-> NoResult]

\* ------------------------------------------------------- the file system
Exists(path) == path \in DOMAIN names
Content(path) == inodes[names[path]].data
Mtime(path) == inodes[names[path]].mtime

\* the smallest inode number not in use
FreshIno(ino) == CHOOSE i \in 1..(Cardinality(DOMAIN ino) + 1) : i \notin DOMAIN ino

\* the inodes that are still linked or open
Live(nm, ino, pr) ==
  LET used == {nm[q] : q \in DOMAIN nm} \cup {pr[c].fd : c \in Procs}
  IN  [i \in DOMAIN ino \cap used |-> ino[i]]

\* open(O_WRONLY | O_CREAT | O_TRUNC): the entries and inodes afterwards,
\* and the inode opened
OpenTrunc(nm, ino, path, now) ==
  IF path \in DOMAIN nm
  THEN [names |-> nm,
        inodes |-> [ino EXCEPT ![nm[path]] = [data |-> <<>>, mtime |-> now]],
        fd |-> nm[path]]
  ELSE LET i == FreshIno(ino)
       IN  [names |-> [q \in DOMAIN nm \cup {path} |-> IF q = path THEN i ELSE nm[q]],
            inodes |-> [j \in DOMAIN ino \cup {i} |->
                          IF j = i THEN [data |-> <<>>, mtime |-> now] ELSE ino[j]],
            fd |-> i]

\* write(fd, chunk) at offset off: bytes are replaced in place, the file
\* grows as needed and a gap before off reads as zero bytes ("NUL")
WriteAt(file, off, chunk, now) ==
  LET old == file.data
      gap == IF off > Size(old) THEN Rep("NUL", off - Size(old)) ELSE <<>>
  IN  [data |-> Cat(TakeBytes(old, off),
                Cat(gap, Cat(chunk, DropBytes(old, off + Size(chunk))))),
       mtime |-> now]

\* a link(from, to) in place of the rename: from stays
LinkOver(nm, from, to) ==
  [q \in DOMAIN nm \cup {to} |-> IF q = to THEN nm[from] ELSE nm[q]]

\* rename(from, to), from existing: to names from's inode, from is gone
Rename(nm, from, to) ==
  [q \in (DOMAIN nm \cup {to}) \ {from} |-> IF q = to THEN nm[from] ELSE nm[q]]

\* an unlink(path) that reports success and removes nothing
UnlinkNothing(nm, path) == nm

\* unlink(path)
Unlink(nm, path) == [q \in DOMAIN nm \ {path} |-> nm[q]]

\* the sizes one write or read call may transfer out of n remaining bytes:
\* all of them, or half of them while another call is still allowed
Transfers(n, calls) ==
  {n} \cup (IF calls + 1 < MaxChunks /\ n >= 2 THEN {(n + 1) \div 2} ELSE {})

\* a step that may fail: the failure is taken only within the fault budget
MayFail == faults < MaxFaults

\* what a path holds: whether it exists, and its content
FinalState(path) ==
  IF Exists(path) THEN [exists |-> TRUE, data |-> Content(path)]
  ELSE [exists |-> FALSE, data |-> <<>>]

\* ---------------------------------------------------------------- ghosts
\* the complete content c is now meant for path
Offer(off, path, c) ==
  [q \in DOMAIN off \cup {path} |->
     IF q = path THEN (IF q \in DOMAIN off THEN off[q] ELSE {}) \cup {c} ELSE off[q]]

Commit(com, path, record) ==
  [q \in DOMAIN com \cup {path} |-> IF q = path THEN record ELSE com[q]]

Forget(com, path) == [q \in DOMAIN com \ {path} |-> com[q]]

\* ---------------------------------------------------------------- inputs
F_a == Str(<<"a">>)
F_traversal == Str(<<".", ".", "/", "e", "t", "c", "/", "p", "a", "s", "s", "w", "d">>)

\* the filenames a caller may pass: a plain one, the longest allowed, the
\* empty one, one too long, ones with "..", "/" and a backslash, and one
\* with an extension of its own
FileNames ==
  {F_a, Rep("a", MaxFilenameLen), <<>>, Rep("a", MaxFilenameLen + 1), F_traversal,
   Str(<<"a", "/", "b">>), Str(<<"a", BSL, "b">>), Str(<<"a", ".", ".", "b">>),
   Str(<<"a", ".", "b">>)}

\* a map holding a sequence with a number, a string with a space, a quote,
\* a backslash and a newline, and an empty sequence; and a null
D_tree ==
  JObj(<<Entry(Str(<<"a">>),
               JArr(<<JNum(Str(<<"1", "0">>)),
                      JStr(Str(<<"a", SP, QUOTE, QUOTE, BSL, NL>>)),
                      JArr(<<>>)>>)),
         Entry(Str(<<"b">>), JNull)>>)
\* a string whose compact and pretty forms are both exactly the cap
D_capStr == JStr(Rep("a", MAX_RECOVERY_DATA_BYTES - 2))
\* a sequence whose compact form is exactly the cap
D_capArr == JArr(<<JStr(Rep("a", MAX_RECOVERY_DATA_BYTES - 4))>>)
\* a string whose compact form is one byte over the cap
D_over == JStr(Rep("a", MAX_RECOVERY_DATA_BYTES - 1))

\* the documents a caller may pass
Docs == {D_tree, JTrue, D_capStr, D_capArr, D_over}

S_blue == Str(<<"b", "l", "u", "e">>)

\* the theme strings a caller may pass
Themes == {S_light, S_dark, S_system, S_blue, Str(<<"L", "i", "g", "h", "t">>), <<>>}

\* preferences.json as an earlier run or another program may have left it
InitialPrefs == {to_string_pretty(PreferencesValue([theme |-> S_light])),
                 to_string(PreferencesValue([theme |-> S_blue])),
                 Str(<<"{", QUOTE, "t", "h">>)}

\* the commands
SAVE == "save_emergency_data"
LOAD == "load_emergency_data"
CLEANUP == "cleanup_old_recovery_files"
SAVE_PREFS == "save_preferences"
LOAD_PREFS == "load_preferences"
RecoveryCommands == {SAVE, LOAD, CLEANUP}
PrefsCommands == {SAVE_PREFS, LOAD_PREFS}

\* what a caller does in a session: the commands it invokes and the
\* arguments it passes to them
Caller(commands, filename, data, theme) ==
  [commands |-> commands, filename |-> filename, data |-> data, theme |-> theme]

\* what an earlier run may have left on disk: nothing (a first run), a
\* preferences file, or a recovery record saved more than seven days ago
NoDisk == [dir |-> {}, path |-> NoPath, data |-> <<>>, mtime |-> 0]
PrefsDisks ==
  {[dir |-> {DataDir}, path |-> PrefsPath, data |-> c, mtime |-> StartTime]
     : c \in InitialPrefs}
OldRecordDisk ==
  [dir |-> {DataDir, RecoveryDir}, path |-> RecoveryPath(F_a),
   data |-> to_string_pretty(JTrue), mtime |-> StartTime - SevenDays - 1]

Session(callers, disk) == [callers |-> callers, disk |-> disk]

\* the sessions: both stores with plain arguments on a first run; the
\* recovery store with each filename, with each document and with an old
\* record on disk; the preferences store with each theme on each disk
Sessions ==
  {Session(<<Caller(RecoveryCommands \cup PrefsCommands, F_a, D_tree, S_dark),
             Caller(RecoveryCommands \cup PrefsCommands, F_a, JTrue, S_light)>>,
           NoDisk)}
    \cup {Session(<<Caller(RecoveryCommands, f, D_tree, S_dark),
                    Caller(RecoveryCommands, F_a, JTrue, S_light)>>, NoDisk)
            : f \in FileNames}
    \cup {Session(<<Caller(RecoveryCommands, F_a, d, S_dark),
                    Caller(RecoveryCommands, F_a, JTrue, S_light)>>, k)
            : d \in Docs, k \in {NoDisk, OldRecordDisk}}
    \cup {Session(<<Caller(PrefsCommands, F_a, D_tree, t),
                    Caller(PrefsCommands, F_a, JTrue, S_light)>>, k)
            : t \in Themes, k \in {NoDisk} \cup PrefsDisks}

\* ----------------------------------------------------------------- steps
\* the caller's record once its command has its result
Done(r, result) ==
  [Idle EXCEPT !.op = r.op, !.pc = "done", !.filename = r.filename,
               !.preferences = r.preferences, !.now = r.now,
               !.removed_count = r.removed_count, !.removed = r.removed,
               !.failed = r.failed, !.before = r.before, !.result = result]

CanBegin(p, command) ==
  /\ proc[p].pc = "idle"
  /\ started < MaxOps
  /\ command \in args[p].commands

\* no command is in flight
Quiet == \A p \in Procs : proc[p].pc = "idle"

\* days pass; they pass between commands, a command takes no such time
Tick(d) ==
  /\ (clock - StartTime) \div SevenDays < MaxTicks
  /\ Quiet
  /\ clock' = clock + d
  /\ UNCHANGED <<dirs, names, inodes, proc, started, faults, offered, committed, args, quick_pane>>

\* the caller takes the result; its slot is free again
Return(p) ==
  /\ proc[p].pc = "done"
  /\ proc' = [proc EXCEPT ![p] = Idle]
  /\ UNCHANGED <<clock, dirs, names, inodes, started, faults, offered, committed, args, quick_pane>>

\* create_dir_all(dir) of get_recovery_dir and get_preferences_path: the
\* directories afterwards, for each way it may end
create_dir_all(dir) ==
  IF dir = RecoveryDir
  THEN [ok |-> {dirs \cup {DataDir, RecoveryDir}}, err |-> {dirs, dirs \cup {DataDir}}]
  ELSE [ok |-> {dirs \cup {DataDir}}, err |-> {dirs}]

\* ---- save_emergency_data
\* let file_path = recovery_dir.join(format!("{filename}.json"))
file_path(filename) == RecoveryPath(filename)

\* a direct overwrite: the content is written to the final path itself
final_path_as_temp(filename) == file_path(filename)

\* let temp_path = file_path.with_extension("tmp")
temp_path(filename) == with_extension(file_path(filename), S_tmp)

\* a size check that also rejects a text of exactly the cap
at_or_over_cap(data_str) == Size(data_str) >= MAX_RECOVERY_DATA_BYTES

\* if data_str.len() > MAX_RECOVERY_DATA_BYTES
too_large(data_str) == Size(data_str) > MAX_RECOVERY_DATA_BYTES

\* validate_filename, serde_json::to_string, the size check and
\* get_recovery_dir
save_emergency_data_begin(p, filename, data) ==
  /\ CanBegin(p, SAVE)
  /\ started' = started + 1
  /\ LET r == [Idle EXCEPT !.op = SAVE, !.filename = filename, !.data = data,
                           !.before = FinalState(file_path(filename))]
         v == validate_filename(filename)
         data_str == to_string(data)
     IN  IF v # "ok"
         THEN /\ proc' = [proc EXCEPT ![p] = Done(r, ValidationError(v))]
              /\ UNCHANGED <<dirs, faults>>
         ELSE IF too_large(data_str)
         THEN /\ proc' = [proc EXCEPT ![p] = Done(r, DataTooLarge(MAX_RECOVERY_DATA_BYTES))]
              /\ UNCHANGED <<dirs, faults>>
         ELSE \/ /\ dirs' \in create_dir_all(RecoveryDir).ok
                 /\ proc' = [proc EXCEPT ![p] = [r EXCEPT !.pc = "create"]]
                 /\ UNCHANGED faults
              \/ /\ MayFail
                 /\ faults' = faults + 1
                 /\ dirs' \in create_dir_all(RecoveryDir).err
                 /\ proc' = [proc EXCEPT ![p] = Done(r, IoError)]
  /\ UNCHANGED <<clock, names, inodes, offered, committed, args, quick_pane>>

\* std::fs::write, its File::create(temp_path)
save_emergency_data_create(p) ==
  /\ proc[p].op = SAVE /\ proc[p].pc = "create"
  /\ \/ LET o == OpenTrunc(names, inodes, temp_path(proc[p].filename), clock)
        IN  /\ names' = o.names
            /\ inodes' = o.inodes
            /\ proc' = [proc EXCEPT ![p].pc = "write", ![p].fd = o.fd]
            /\ offered' = Offer(offered, file_path(proc[p].filename),
                                to_string_pretty(proc[p].data))
            /\ UNCHANGED faults
     \/ /\ MayFail
        /\ faults' = faults + 1
        /\ proc' = [proc EXCEPT ![p] = Done(proc[p], IoError)]
        /\ UNCHANGED <<names, inodes, offered>>
  /\ UNCHANGED <<clock, dirs, started, committed, args, quick_pane>>

\* one write call of write_all(json_content): the inodes afterwards and
\* the caller's record, which goes on to label next after the last call
WriteCall(p, json_content, k, next) ==
  LET left == DropBytes(json_content, proc[p].off)
      written == [inodes EXCEPT ![proc[p].fd] =
                    WriteAt(@, proc[p].off, TakeBytes(left, k), clock)]
      r == IF k = Size(left)
           THEN [proc[p] EXCEPT !.pc = next, !.fd = 0, !.off = 0, !.calls = 0]
           ELSE [proc[p] EXCEPT !.off = @ + k, !.calls = @ + 1]
  IN  [inodes |-> written, proc |-> [proc EXCEPT ![p] = r]]

\* std::fs::write, one write call of its write_all(json_content); the file
\* is closed after the last one
save_emergency_data_write(p) ==
  /\ proc[p].op = SAVE /\ proc[p].pc = "write"
  /\ \/ LET json_content == to_string_pretty(proc[p].data)
        IN  \E k \in Transfers(Size(json_content) - proc[p].off, proc[p].calls) :
              LET w == WriteCall(p, json_content, k, "rename")
              IN  /\ proc' = w.proc
                  /\ inodes' = Live(names, w.inodes, proc')
                  /\ UNCHANGED faults
     \/ /\ MayFail
        /\ faults' = faults + 1
        /\ proc' = [proc EXCEPT ![p] = Done(proc[p], IoError)]
        /\ inodes' = Live(names, inodes, proc')
  /\ UNCHANGED <<clock, dirs, names, started, offered, committed, args, quick_pane>>

\* std::fs::rename(temp_path, file_path)
save_emergency_data_rename(p) ==
  /\ proc[p].op = SAVE /\ proc[p].pc = "rename"
  /\ \/ /\ Exists(temp_path(proc[p].filename))
        /\ names' = Rename(names, temp_path(proc[p].filename), file_path(proc[p].filename))
        /\ proc' = [proc EXCEPT ![p] = Done(proc[p], Ok(Unit))]
        /\ inodes' = Live(names', inodes, proc')
        /\ committed' = Commit(committed, file_path(proc[p].filename), proc[p].data)
        /\ UNCHANGED faults
     \/ /\ ~Exists(temp_path(proc[p].filename))
        /\ proc' = [proc EXCEPT ![p] = Done(proc[p], IoError)]
        /\ UNCHANGED <<names, inodes, faults, committed>>
     \/ /\ MayFail
        /\ faults' = faults + 1
        /\ proc' = [proc EXCEPT ![p] = Done(proc[p], IoError)]
        /\ UNCHANGED <<names, inodes, committed>>
  /\ UNCHANGED <<clock, dirs, started, offered, args, quick_pane>>

\* ---- save_preferences
\* prefs_path.with_extension("tmp")
prefs_temp_path == with_extension(PrefsPath, S_tmp)

\* validate_theme and get_preferences_path
save_preferences_begin(p, preferences) ==
  /\ CanBegin(p, SAVE_PREFS)
  /\ started' = started + 1
  /\ LET r == [Idle EXCEPT !.op = SAVE_PREFS, !.preferences = preferences,
                           !.before = FinalState(PrefsPath)]
         v == validate_theme(preferences.theme)
     IN  IF v # "ok"
         THEN /\ proc' = [proc EXCEPT ![p] = Done(r, ErrString(v))]
              /\ UNCHANGED <<dirs, faults>>
         ELSE \/ /\ dirs' \in create_dir_all(DataDir).ok
                 /\ proc' = [proc EXCEPT ![p] = [r EXCEPT !.pc = "create"]]
                 /\ UNCHANGED faults
              \/ /\ MayFail
                 /\ faults' = faults + 1
                 /\ dirs' \in create_dir_all(DataDir).err
                 /\ proc' = [proc EXCEPT ![p] =
                               Done(r, ErrString("Failed to create app data directory"))]
  /\ UNCHANGED <<clock, names, inodes, offered, committed, args, quick_pane>>

\* std::fs::write, its File::create(temp_path)
save_preferences_create(p) ==
  /\ proc[p].op = SAVE_PREFS /\ proc[p].pc = "create"
  /\ \/ LET o == OpenTrunc(names, inodes, prefs_temp_path, clock)
        IN  /\ names' = o.names
            /\ inodes' = o.inodes
            /\ proc' = [proc EXCEPT ![p].pc = "write", ![p].fd = o.fd]
            /\ offered' = Offer(offered, PrefsPath,
                                to_string_pretty(PreferencesValue(proc[p].preferences)))
            /\ UNCHANGED faults
     \/ /\ MayFail
        /\ faults' = faults + 1
        /\ proc' = [proc EXCEPT ![p] =
                      Done(proc[p], ErrString("Failed to write preferences file"))]
        /\ UNCHANGED <<names, inodes, offered>>
  /\ UNCHANGED <<clock, dirs, started, committed, args, quick_pane>>

\* std::fs::write, one write call of its write_all(json_content)
save_preferences_write(p) ==
  /\ proc[p].op = SAVE_PREFS /\ proc[p].pc = "write"
  /\ \/ LET json_content == to_string_pretty(PreferencesValue(proc[p].preferences))
        IN  \E k \in Transfers(Size(json_content) - proc[p].off, proc[p].calls) :
              LET w == WriteCall(p, json_content, k, "rename")
              IN  /\ proc' = w.proc
                  /\ inodes' = Live(names, w.inodes, proc')
                  /\ UNCHANGED faults
     \/ /\ MayFail
        /\ faults' = faults + 1
        /\ proc' = [proc EXCEPT ![p] =
                      Done(proc[p], ErrString("Failed to write preferences file"))]
        /\ inodes' = Live(names, inodes, proc')
  /\ UNCHANGED <<clock, dirs, names, started, offered, committed, args, quick_pane>>

\* std::fs::rename(temp_path, prefs_path)
save_preferences_rename(p) ==
  /\ proc[p].op = SAVE_PREFS /\ proc[p].pc = "rename"
  /\ \/ /\ Exists(prefs_temp_path)
        /\ names' = Rename(names, prefs_temp_path, PrefsPath)
        /\ proc' = [proc EXCEPT ![p] = Done(proc[p], Ok(Unit))]
        /\ inodes' = Live(names', inodes, proc')
        /\ committed' = Commit(committed, PrefsPath, proc[p].preferences)
        /\ UNCHANGED faults
     \/ /\ ~Exists(prefs_temp_path)
        /\ proc' = [proc EXCEPT ![p] =
                      Done(proc[p], ErrString("Failed to finalize preferences file"))]
        /\ UNCHANGED <<names, inodes, faults, committed>>
     \/ /\ MayFail
        /\ faults' = faults + 1
        /\ proc' = [proc EXCEPT ![p] =
                      Done(proc[p], ErrString("Failed to finalize preferences file"))]
        /\ UNCHANGED <<names, inodes, committed>>
  /\ UNCHANGED <<clock, dirs, started, offered, args, quick_pane>>

\* ---- load_emergency_data
\* validate_filename and get_recovery_dir
load_emergency_data_begin(p, filename) ==
  /\ CanBegin(p, LOAD)
  /\ started' = started + 1
  /\ LET r == [Idle EXCEPT !.op = LOAD, !.filename = filename]
         v == validate_filename(filename)
     IN  IF v # "ok"
         THEN /\ proc' = [proc EXCEPT ![p] = Done(r, ValidationError(v))]
              /\ UNCHANGED <<dirs, faults>>
         ELSE \/ /\ dirs' \in create_dir_all(RecoveryDir).ok
                 /\ proc' = [proc EXCEPT ![p] = [r EXCEPT !.pc = "exists"]]
                 /\ UNCHANGED faults
              \/ /\ MayFail
                 /\ faults' = faults + 1
                 /\ dirs' \in create_dir_all(RecoveryDir).err
                 /\ proc' = [proc EXCEPT ![p] = Done(r, IoError)]
  /\ UNCHANGED <<clock, names, inodes, offered, committed, args, quick_pane>>

\* file_path.exists(): false when the file is absent or cannot be examined
load_emergency_data_exists(p) ==
  /\ proc[p].op = LOAD /\ proc[p].pc = "exists"
  /\ \/ /\ Exists(file_path(proc[p].filename))
        /\ proc' = [proc EXCEPT ![p].pc = "open"]
        /\ UNCHANGED faults
     \/ /\ ~Exists(file_path(proc[p].filename))
        /\ proc' = [proc EXCEPT ![p] = Done(proc[p], FileNotFound)]
        /\ UNCHANGED faults
     \/ /\ Exists(file_path(proc[p].filename))
        /\ MayFail
        /\ faults' = faults + 1
        /\ proc' = [proc EXCEPT ![p] = Done(proc[p], FileNotFound)]
  /\ UNCHANGED <<clock, dirs, names, inodes, started, offered, committed, args, quick_pane>>

\* std::fs::read_to_string, its File::open(file_path)
load_emergency_data_open(p) ==
  /\ proc[p].op = LOAD /\ proc[p].pc = "open"
  /\ \/ /\ Exists(file_path(proc[p].filename))
        /\ proc' = [proc EXCEPT ![p].pc = "read",
                                ![p].fd = names[file_path(proc[p].filename)],
                                ![p].opened = Content(file_path(proc[p].filename))]
        /\ UNCHANGED faults
     \/ /\ ~Exists(file_path(proc[p].filename))
        /\ proc' = [proc EXCEPT ![p] = Done(proc[p], IoError)]
        /\ UNCHANGED faults
     \/ /\ MayFail
        /\ faults' = faults + 1
        /\ proc' = [proc EXCEPT ![p] = Done(proc[p], IoError)]
  /\ UNCHANGED <<clock, dirs, names, inodes, started, offered, committed, args, quick_pane>>

\* one read call of read_to_string that returns k bytes
ReadCall(p, k) ==
  LET left == DropBytes(inodes[proc[p].fd].data, proc[p].off)
  IN  [proc EXCEPT ![p].contents = Cat(@, TakeBytes(left, k)),
                   ![p].off = @ + k, ![p].calls = @ + 1]

\* the bytes of the open file that the caller has not read yet
Unread(p) == Size(inodes[proc[p].fd].data) - proc[p].off

\* the caller's record once read_to_string is over: the contents read and
\* the content the file had when it was opened stay on record
Loaded(p, result) ==
  [Done(proc[p], result) EXCEPT !.contents = proc[p].contents,
                                !.opened = proc[p].opened]

\* std::fs::read_to_string, one read call; at the end of the file the
\* contents are handed to serde_json::from_str
load_emergency_data_read(p) ==
  /\ proc[p].op = LOAD /\ proc[p].pc = "read"
  /\ \/ /\ Unread(p) > 0
        /\ \E k \in Transfers(Unread(p), proc[p].calls) : proc' = ReadCall(p, k)
        /\ UNCHANGED <<inodes, faults>>
     \/ /\ Unread(p) <= 0
        /\ LET r == from_str(proc[p].contents)
           IN  proc' = [proc EXCEPT ![p] =
                          Loaded(p, IF r.ok THEN Ok(r.val) ELSE ParseError)]
        /\ inodes' = Live(names, inodes, proc')
        /\ UNCHANGED faults
     \/ /\ MayFail
        /\ faults' = faults + 1
        /\ proc' = [proc EXCEPT ![p] = Done(proc[p], IoError)]
        /\ inodes' = Live(names, inodes, proc')
  /\ UNCHANGED <<clock, dirs, names, started, offered, committed, args, quick_pane>>

\* ---- load_preferences
\* get_preferences_path
load_preferences_begin(p) ==
  /\ CanBegin(p, LOAD_PREFS)
  /\ started' = started + 1
  /\ LET r == [Idle EXCEPT !.op = LOAD_PREFS]
     IN  \/ /\ dirs' \in create_dir_all(DataDir).ok
            /\ proc' = [proc EXCEPT ![p] = [r EXCEPT !.pc = "exists"]]
            /\ UNCHANGED faults
         \/ /\ MayFail
            /\ faults' = faults + 1
            /\ dirs' \in create_dir_all(DataDir).err
            /\ proc' = [proc EXCEPT ![p] =
                          Done(r, ErrString("Failed to create app data directory"))]
  /\ UNCHANGED <<clock, names, inodes, offered, committed, args, quick_pane>>

\* prefs_path.exists(): false when the file is absent or cannot be examined
load_preferences_exists(p) ==
  /\ proc[p].op = LOAD_PREFS /\ proc[p].pc = "exists"
  /\ \/ /\ Exists(PrefsPath)
        /\ proc' = [proc EXCEPT ![p].pc = "open"]
        /\ UNCHANGED faults
     \/ /\ ~Exists(PrefsPath)
        /\ proc' = [proc EXCEPT ![p] = Done(proc[p], Ok(DefaultPreferences))]
        /\ UNCHANGED faults
     \/ /\ Exists(PrefsPath)
        /\ MayFail
        /\ faults' = faults + 1
        /\ proc' = [proc EXCEPT ![p] = Done(proc[p], Ok(DefaultPreferences))]
  /\ UNCHANGED <<clock, dirs, names, inodes, started, offered, committed, args, quick_pane>>

\* std::fs::read_to_string, its File::open(prefs_path)
load_preferences_open(p) ==
  /\ proc[p].op = LOAD_PREFS /\ proc[p].pc = "open"
  /\ \/ /\ Exists(PrefsPath)
        /\ proc' = [proc EXCEPT ![p].pc = "read", ![p].fd = names[PrefsPath],
                                ![p].opened = Content(PrefsPath)]
        /\ UNCHANGED faults
     \/ /\ ~Exists(PrefsPath)
        /\ proc' = [proc EXCEPT ![p] =
                      Done(proc[p], ErrString("Failed to read preferences file"))]
        /\ UNCHANGED faults
     \/ /\ MayFail
        /\ faults' = faults + 1
        /\ proc' = [proc EXCEPT ![p] =
                      Done(proc[p], ErrString("Failed to read preferences file"))]
  /\ UNCHANGED <<clock, dirs, names, inodes, started, offered, committed, args, quick_pane>>

\* std::fs::read_to_string, one read call; at the end of the file the
\* contents are handed to serde_json::from_str::<AppPreferences>
load_preferences_read(p) ==
  /\ proc[p].op = LOAD_PREFS /\ proc[p].pc = "read"
  /\ \/ /\ Unread(p) > 0
        /\ \E k \in Transfers(Unread(p), proc[p].calls) : proc' = ReadCall(p, k)
        /\ UNCHANGED <<inodes, faults>>
     \/ /\ Unread(p) <= 0
        /\ LET r == PreferencesFromStr(proc[p].contents)
           IN  proc' = [proc EXCEPT ![p] =
                          Loaded(p, IF r.ok THEN Ok(r.val)
                                    ELSE ErrString("Failed to parse preferences"))]
        /\ inodes' = Live(names, inodes, proc')
        /\ UNCHANGED faults
     \/ /\ MayFail
        /\ faults' = faults + 1
        /\ proc' = [proc EXCEPT ![p] =
                      Done(proc[p], ErrString("Failed to read preferences file"))]
        /\ inodes' = Live(names, inodes, proc')
  /\ UNCHANGED <<clock, dirs, names, started, offered, committed, args, quick_pane>>

\* ---- cleanup_old_recovery_files
\* get_recovery_dir
cleanup_old_recovery_files_begin(p) ==
  /\ CanBegin(p, CLEANUP)
  /\ started' = started + 1
  /\ LET r == [Idle EXCEPT !.op = CLEANUP]
     IN  \/ /\ dirs' \in create_dir_all(RecoveryDir).ok
            /\ proc' = [proc EXCEPT ![p] = [r EXCEPT !.pc = "read_dir"]]
            /\ UNCHANGED faults
         \/ /\ MayFail
            /\ faults' = faults + 1
            /\ dirs' \in create_dir_all(RecoveryDir).err
            /\ proc' = [proc EXCEPT ![p] = Done(r, IoError)]
  /\ UNCHANGED <<clock, names, inodes, offered, committed, args, quick_pane>>

\* SystemTime::now() and std::fs::read_dir(recovery_dir)
cleanup_old_recovery_files_read_dir(p) ==
  /\ proc[p].op = CLEANUP /\ proc[p].pc = "read_dir"
  /\ \/ /\ proc' = [proc EXCEPT ![p].pc = "entry", ![p].now = clock,
                                ![p].entries = {q \in DOMAIN names : q.dir = RecoveryDir}]
        /\ UNCHANGED faults
     \/ /\ MayFail
        /\ faults' = faults + 1
        /\ proc' = [proc EXCEPT ![p] = Done([proc[p] EXCEPT !.now = clock], IoError)]
  /\ UNCHANGED <<clock, dirs, names, inodes, started, offered, committed, args, quick_pane>>

\* let seven_days_ago = now - (7 * 24 * 60 * 60), on u64 (StartTime keeps
\* now above seven days, as any real clock is)
seven_days_ago(now) == now - SevenDays

\* a comparison that also takes a file of exactly seven days for old
is_old_or_at_threshold(modified_secs, now) == modified_secs <= seven_days_ago(now)

\* if modified_secs < seven_days_ago
is_old(modified_secs, now) == modified_secs < seven_days_ago(now)

\* one turn of the loop up to the comparison: the extension test, the
\* metadata and the modification time of the entry
cleanup_old_recovery_files_entry(p) ==
  /\ proc[p].op = CLEANUP /\ proc[p].pc = "entry"
  /\ \E path \in proc[p].entries :
       LET skip == [proc EXCEPT ![p].entries = @ \ {path}]
       IN  \/ /\ extension(path) # S_json
              /\ proc' = skip
              /\ UNCHANGED faults
           \/ /\ extension(path) = S_json
              /\ ~Exists(path)
              /\ proc' = [skip EXCEPT ![p].failed = @ \cup {path}]
              /\ UNCHANGED faults
           \/ /\ extension(path) = S_json
              /\ Exists(path)
              /\ proc' = IF is_old(Mtime(path), proc[p].now)
                         THEN [skip EXCEPT ![p].pc = "remove", ![p].path = path]
                         ELSE skip
              /\ UNCHANGED faults
           \/ /\ extension(path) = S_json
              /\ MayFail
              /\ faults' = faults + 1
              /\ proc' = [skip EXCEPT ![p].failed = @ \cup {path}]
  /\ UNCHANGED <<clock, dirs, names, inodes, started, offered, committed, args, quick_pane>>

\* std::fs::remove_file(path) and the count of the files removed
cleanup_old_recovery_files_remove(p) ==
  /\ proc[p].op = CLEANUP /\ proc[p].pc = "remove"
  /\ LET path == proc[p].path
         next == [proc EXCEPT ![p].pc = "entry", ![p].path = NoPath]
     IN  \/ /\ Exists(path)
            /\ names' = Unlink(names, path)
            /\ proc' = [next EXCEPT ![p].removed_count = @ + 1,
                                    ![p].removed = @ \cup {[path |-> path, mtime |-> Mtime(path)]}]
            /\ inodes' = Live(names', inodes, proc')
            /\ committed' = Forget(committed, path)
            /\ UNCHANGED faults
         \/ /\ ~Exists(path)
            /\ proc' = [next EXCEPT ![p].failed = @ \cup {path}]
            /\ UNCHANGED <<names, inodes, faults, committed>>
         \/ /\ MayFail
            /\ faults' = faults + 1
            /\ proc' = [next EXCEPT ![p].failed = @ \cup {path}]
            /\ UNCHANGED <<names, inodes, committed>>
  /\ UNCHANGED <<clock, dirs, started, offered, args, quick_pane>>

\* the loop is over: Ok(removed_count)
cleanup_old_recovery_files_finish(p) ==
  /\ proc[p].op = CLEANUP /\ proc[p].pc = "entry"
  /\ proc[p].entries = {}
  /\ proc' = [proc EXCEPT ![p] = Done(proc[p], Ok(proc[p].removed_count))]
  /\ UNCHANGED <<clock, dirs, names, inodes, started, faults, offered, committed, args, quick_pane>>

\* -------------------------------------------------------- the quick pane
\* The macOS build: PREVIOUS_APP_PID exists and the commands capture and
\* reactivate the frontmost application.  show_quick_pane,
\* dismiss_quick_pane and toggle_quick_pane are sync commands and run one
\* at a time on the main thread; hide_quick_pane is an async command and
\* runs on another thread, at any time.
QUICK_PANE_LABEL == "quick-pane"

\* the applications of the exploration, and frontmostApplication() = None
Pids == {501, 502}
NoApp == 0

\* how the calls on the window end for one command: TRUE is Ok(..)
Outcomes == [is_visible : BOOLEAN, show : BOOLEAN, set_focus : BOOLEAN,
             hide : BOOLEAN]

\* what a command does: its result, the visibility and the pid it leaves,
\* its calls on the window, and the pid given to
\* runningApplicationWithProcessIdentifier (NoApp: no such call)
Effect(result, vis, pid, calls, lookup) ==
  [result |-> result, visible |-> vis, PREVIOUS_APP_PID |-> pid,
   calls |-> calls, lookup |-> lookup]

get_webview_window(label) == label \in webview_windows

NotFound ==
  ErrString("Quick pane window not found - was init_quick_pane called at startup?")

show_quick_pane(o) ==
  IF ~get_webview_window(QUICK_PANE_LABEL)
    THEN Effect(NotFound, visible,
                IF frontmost # NoApp THEN frontmost ELSE PREVIOUS_APP_PID,
                <<>>, NoApp)
  ELSE IF ~o.show
    THEN Effect(ErrString("Failed to show window"), visible,
                IF frontmost # NoApp THEN frontmost ELSE PREVIOUS_APP_PID,
                <<"show">>, NoApp)
  ELSE IF ~o.set_focus
    THEN Effect(ErrString("Failed to focus window"), TRUE,
                IF frontmost # NoApp THEN frontmost ELSE PREVIOUS_APP_PID,
                <<"show", "set_focus">>, NoApp)
  ELSE Effect(Ok(Unit), TRUE,
              IF frontmost # NoApp THEN frontmost ELSE PREVIOUS_APP_PID,
              <<"show", "set_focus">>, NoApp)

\* a hide_quick_pane that forgets the captured application as
\* dismiss_quick_pane does
hide_and_forget(o) ==
  IF ~get_webview_window(QUICK_PANE_LABEL)
    THEN Effect(Ok(Unit), visible, -1, <<>>, NoApp)
  ELSE IF ~o.hide
    THEN Effect(ErrString("Failed to hide window"), visible, PREVIOUS_APP_PID,
                <<"hide">>, NoApp)
  ELSE Effect(Ok(Unit), FALSE, -1, <<"hide">>, NoApp)

hide_quick_pane(o) ==
  IF ~get_webview_window(QUICK_PANE_LABEL)
    THEN Effect(Ok(Unit), visible, PREVIOUS_APP_PID, <<>>, NoApp)
  ELSE IF ~o.hide
    THEN Effect(ErrString("Failed to hide window"), visible, PREVIOUS_APP_PID,
                <<"hide">>, NoApp)
  ELSE Effect(Ok(Unit), FALSE, PREVIOUS_APP_PID, <<"hide">>, NoApp)

\* a dismiss_quick_pane that reads the pid with a load and leaves it
dismiss_without_reset(o) ==
  IF ~get_webview_window(QUICK_PANE_LABEL)
    THEN Effect(Ok(Unit), visible, PREVIOUS_APP_PID, <<>>,
                IF PREVIOUS_APP_PID > 0 THEN PREVIOUS_APP_PID ELSE NoApp)
  ELSE IF ~o.hide
    THEN Effect(ErrString("Failed to hide window"), visible, PREVIOUS_APP_PID,
                <<"hide">>, NoApp)
  ELSE Effect(Ok(Unit), FALSE, PREVIOUS_APP_PID, <<"hide">>,
              IF PREVIOUS_APP_PID > 0 THEN PREVIOUS_APP_PID ELSE NoApp)

dismiss_quick_pane(o) ==
  IF ~get_webview_window(QUICK_PANE_LABEL)
    THEN Effect(Ok(Unit), visible, -1, <<>>,
                IF PREVIOUS_APP_PID > 0 THEN PREVIOUS_APP_PID ELSE NoApp)
  ELSE IF ~o.hide
    THEN Effect(ErrString("Failed to hide window"), visible, PREVIOUS_APP_PID,
                <<"hide">>, NoApp)
  ELSE Effect(Ok(Unit), FALSE, -1, <<"hide">>,
              IF PREVIOUS_APP_PID > 0 THEN PREVIOUS_APP_PID ELSE NoApp)

\* toggle_quick_pane from the branch on is_visible on, is_visible being
\* the value it has read
toggle_quick_pane_branch(is_visible, o) ==
  IF is_visible
    THEN IF ~o.hide
           THEN Effect(ErrString("Failed to hide window"), visible,
                       PREVIOUS_APP_PID, <<"hide">>, NoApp)
           ELSE Effect(Ok(Unit), FALSE, -1, <<"hide">>,
                       IF PREVIOUS_APP_PID > 0 THEN PREVIOUS_APP_PID ELSE NoApp)
  ELSE IF ~o.show
    THEN Effect(ErrString("Failed to show window"), visible,
                IF frontmost # NoApp THEN frontmost ELSE PREVIOUS_APP_PID,
                <<"show">>, NoApp)
  ELSE IF ~o.set_focus
    THEN Effect(ErrString("Failed to focus window"), TRUE,
                IF frontmost # NoApp THEN frontmost ELSE PREVIOUS_APP_PID,
                <<"show", "set_focus">>, NoApp)
  ELSE Effect(Ok(Unit), TRUE,
              IF frontmost # NoApp THEN frontmost ELSE PREVIOUS_APP_PID,
              <<"show", "set_focus">>, NoApp)

\* toggle_quick_pane when nothing runs between its read and its branch
toggle_quick_pane(o) ==
  IF ~get_webview_window(QUICK_PANE_LABEL)
    THEN Effect(NotFound, visible, PREVIOUS_APP_PID, <<>>, NoApp)
  ELSE IF ~o.is_visible
    THEN Effect(ErrString("Failed to check visibility"), visible,
                PREVIOUS_APP_PID, <<>>, NoApp)
  ELSE toggle_quick_pane_branch(visible, o)

\* the main thread with no command in flight
MainIdle == [pc |-> "idle", is_visible |-> FALSE]
NoCommand ==
  [op |-> "none", effect |-> Effect(NoResult, FALSE, -1, <<>>, NoApp),
   before |-> [visible |-> FALSE, PREVIOUS_APP_PID |-> -1, frontmost |-> NoApp,
               is_visible |-> FALSE]]

\* a command returns: what it did takes place.  activateWithOptions brings
\* the application to the front if it is still running; the quick pane is
\* a non-activating panel, showing it leaves the frontmost application
Returns(op, is_visible, e) ==
  /\ visible' = e.visible
  /\ PREVIOUS_APP_PID' = e.PREVIOUS_APP_PID
  /\ frontmost' = IF e.lookup \in running THEN e.lookup ELSE frontmost
  /\ shown_with' = IF ~visible /\ e.visible THEN frontmost ELSE shown_with
  /\ last' = [op |-> op, effect |-> e,
              before |-> [visible |-> visible,
                          PREVIOUS_APP_PID |-> PREVIOUS_APP_PID,
                          frontmost |-> frontmost, is_visible |-> is_visible]]
  /\ UNCHANGED <<webview_windows, running>>
  /\ UNCHANGED <<clock, dirs, names, inodes, proc, started, faults, offered,
                 committed, args>>

\* the commands on their threads.  Of an outcome o a command uses the
\* fields of the calls it makes; the others are held at TRUE
show_quick_pane_run(o) ==
  /\ main.pc = "idle"
  /\ o.is_visible /\ o.hide
  /\ Returns("show_quick_pane", visible, show_quick_pane(o))
  /\ UNCHANGED main

hide_quick_pane_run(o) ==
  /\ o.is_visible /\ o.show /\ o.set_focus
  /\ Returns("hide_quick_pane", visible, hide_quick_pane(o))
  /\ UNCHANGED main

dismiss_quick_pane_run(o) ==
  /\ main.pc = "idle"
  /\ o.is_visible /\ o.show /\ o.set_focus
  /\ Returns("dismiss_quick_pane", visible, dismiss_quick_pane(o))
  /\ UNCHANGED main

\* toggle_quick_pane up to its read of the visibility
toggle_quick_pane_is_visible(o) ==
  /\ main.pc = "idle"
  /\ o.show /\ o.set_focus /\ o.hide
  /\ IF get_webview_window(QUICK_PANE_LABEL) /\ o.is_visible
       THEN /\ main' = [pc |-> "toggle_quick_pane", is_visible |-> visible]
            /\ UNCHANGED <<webview_windows, visible, PREVIOUS_APP_PID, frontmost,
                           running, last, shown_with>>
            /\ UNCHANGED <<clock, dirs, names, inodes, proc, started, faults,
                           offered, committed, args>>
       ELSE /\ Returns("toggle_quick_pane", visible, toggle_quick_pane(o))
            /\ UNCHANGED main

\* toggle_quick_pane from its branch on
toggle_quick_pane_run(o) ==
  /\ main.pc = "toggle_quick_pane"
  /\ o.is_visible
  /\ Returns("toggle_quick_pane", main.is_visible,
             toggle_quick_pane_branch(main.is_visible, o))
  /\ main' = MainIdle

\* the user brings another application to the front, or none
Switch(a) ==
  /\ a \in running \cup {NoApp}
  /\ a # frontmost
  /\ frontmost' = a
  /\ UNCHANGED <<webview_windows, visible, PREVIOUS_APP_PID, running, main, last,
                 shown_with>>
  /\ UNCHANGED <<clock, dirs, names, inodes, proc, started, faults, offered,
                 committed, args>>

\* an application exits
Exit(a) ==
  /\ a \in running
  /\ running' = running \ {a}
  /\ frontmost' = IF frontmost = a THEN NoApp ELSE frontmost
  /\ UNCHANGED <<webview_windows, visible, PREVIOUS_APP_PID, main, last,
                 shown_with>>
  /\ UNCHANGED <<clock, dirs, names, inodes, proc, started, faults, offered,
                 committed, args>>

\* ------------------------------------------------------ the specifications
\* a session begins: the callers' arguments are drawn, and the disk is as
\* an earlier run left it
\* the store at the start of one of the given sessions
InitStore(sessions) ==
  /\ clock = StartTime
  /\ proc = [p \in Procs |-> Idle]
  /\ started = 0
  /\ faults = 0
  /\ committed = [q \in {} |-> 0]
  /\ \E s \in sessions :
       /\ args = s.callers
       /\ dirs = s.disk.dir
       /\ names = [q \in {s.disk.path} \ {NoPath} |-> 1]
       /\ inodes = [i \in {n \in {1} : s.disk.dir # {}} |->
                      [data |-> s.disk.data, mtime |-> s.disk.mtime]]
       /\ offered = [q \in {s.disk.path} \ {NoPath} |-> {s.disk.data}]

\* the quick pane after setup: created hidden by init_quick_pane, or not
\* created; nothing captured; the given applications running
InitQuickPane(windows, apps) ==
  /\ webview_windows \in windows
  /\ visible = FALSE
  /\ PREVIOUS_APP_PID = -1
  /\ running \in apps
  /\ frontmost \in running \cup {NoApp}
  /\ main = MainIdle
  /\ last = NoCommand
  /\ shown_with = NoApp

Init ==
  /\ InitStore(Sessions)
  /\ InitQuickPane({{QUICK_PANE_LABEL}}, {{}})

\* no save and no sweep is in flight
NoWriter == \A p \in Procs : proc[p].op \notin {SAVE, SAVE_PREFS, CLEANUP}

\* a command is invoked with the caller's arguments
Invoke(p) ==
  \/ save_emergency_data_begin(p, args[p].filename, args[p].data)
  \/ save_preferences_begin(p, [theme |-> args[p].theme])
  \/ cleanup_old_recovery_files_begin(p)
  \/ load_emergency_data_begin(p, args[p].filename)
  \/ load_preferences_begin(p)

\* the steps of the commands in flight
Step(p) ==
  \/ save_emergency_data_create(p)
  \/ save_emergency_data_write(p)
  \/ save_emergency_data_rename(p)
  \/ save_preferences_create(p)
  \/ save_preferences_write(p)
  \/ save_preferences_rename(p)
  \/ load_emergency_data_exists(p)
  \/ load_emergency_data_open(p)
  \/ load_emergency_data_read(p)
  \/ load_preferences_exists(p)
  \/ load_preferences_open(p)
  \/ load_preferences_read(p)
  \/ cleanup_old_recovery_files_read_dir(p)
  \/ cleanup_old_recovery_files_entry(p)
  \/ cleanup_old_recovery_files_remove(p)
  \/ cleanup_old_recovery_files_finish(p)
  \/ Return(p)

\* any caller invokes any of its commands at any time
Next ==
  \/ \E p \in Procs : Invoke(p)
  \/ \E p \in Procs : Step(p)
  \/ \E d \in {SevenDays, SevenDays + 1} : Tick(d)

Spec == Init /\ [][Next]_vars

\* one caller, one command at a time
NextSeq ==
  \/ Quiet /\ save_emergency_data_begin(1, args[1].filename, args[1].data)
  \/ Quiet /\ save_preferences_begin(1, [theme |-> args[1].theme])
  \/ Quiet /\ cleanup_old_recovery_files_begin(1)
  \/ Quiet /\ load_emergency_data_begin(1, args[1].filename)
  \/ Quiet /\ load_preferences_begin(1)
  \/ Step(1)
  \/ \E d \in {SevenDays, SevenDays + 1} : Tick(d)

SpecSeq == Init /\ [][NextSeq]_vars

\* at most one save or sweep at a time, loads at any time, within one
\* second of the clock
NextOneWriter ==
  \/ \E p \in Procs : NoWriter /\ save_emergency_data_begin(p, args[p].filename, args[p].data)
  \/ \E p \in Procs : NoWriter /\ save_preferences_begin(p, [theme |-> args[p].theme])
  \/ \E p \in Procs : NoWriter /\ cleanup_old_recovery_files_begin(p)
  \/ \E p \in Procs : load_emergency_data_begin(p, args[p].filename)
  \/ \E p \in Procs : load_preferences_begin(p)
  \/ \E p \in Procs : Step(p)

SpecOneWriter == Init /\ [][NextOneWriter]_vars

\* the quick pane commands, the user and the other applications; the
\* store is left alone
InitPane ==
  /\ InitStore({Session(<<Caller({}, F_a, JTrue, S_light),
                           Caller({}, F_a, JTrue, S_light)>>, NoDisk)})
  /\ InitQuickPane({{QUICK_PANE_LABEL}, {}}, SUBSET Pids)

NextPane ==
  \/ \E o \in Outcomes : show_quick_pane_run(o)
  \/ \E o \in Outcomes : hide_quick_pane_run(o)
  \/ \E o \in Outcomes : dismiss_quick_pane_run(o)
  \/ \E o \in Outcomes : toggle_quick_pane_is_visible(o)
  \/ \E o \in Outcomes : toggle_quick_pane_run(o)
  \/ \E a \in Pids \cup {NoApp} : Switch(a)
  \/ \E a \in Pids : Exit(a)

SpecPane == InitPane /\ [][NextPane]_vars

\* ---------------------------------------------------------- the properties
\* the record files: preferences.json and the .json files of recovery
RecordFiles ==
  {q \in DOMAIN names : q = PrefsPath \/ (q.dir = RecoveryDir /\ extension(q) = S_json)}

\* the final path of the command of caller p, and the content a save of p
\* means for it
FinalPath(p) ==
  IF proc[p].op \in {SAVE, LOAD} THEN file_path(proc[p].filename) ELSE PrefsPath
Payload(p) ==
  IF proc[p].op = SAVE THEN to_string_pretty(args[p].data)
  ELSE to_string_pretty(PreferencesValue(proc[p].preferences))

\* this step is the one in which a command of caller p gets its result
Completes(p, command) ==
  proc'[p].op = command /\ proc[p].pc # "done" /\ proc'[p].pc = "done"

\* C1: whatever the interleaving of two saves of one key, a record file
\* holds the content it had before them or the complete payload of one of
\* them: every record file holds one of the complete contents meant for it
C1_FinalIsOneCompletePayload ==
  \A q \in RecordFiles : Content(q) \in offered[q]

\* C2: with a single writer, while a save is before its rename, or has
\* stopped before it, the final path is as it was when the save began;
\* after the rename it holds the complete payload; and a load reads, and
\* once it has read to the end holds, exactly the complete content the
\* final path had when the load opened it
C2_ReaderSeesCompleteContent ==
  \A p \in Procs :
    /\ (proc[p].op \in {SAVE, SAVE_PREFS} /\ proc[p].pc \in {"create", "write", "rename"})
         => FinalState(FinalPath(p)) = proc[p].before
    /\ (proc[p].op \in {SAVE, SAVE_PREFS} /\ proc[p].pc = "done")
         => FinalState(FinalPath(p)) =
              IF proc[p].result = Ok(Unit)
              THEN [exists |-> TRUE, data |-> Payload(p)]
              ELSE proc[p].before
    /\ (proc[p].op \in {LOAD, LOAD_PREFS} /\ proc[p].pc = "read")
         => /\ proc[p].contents = TakeBytes(proc[p].opened, proc[p].off)
            /\ proc[p].opened \in offered[FinalPath(p)]
    /\ (proc[p].op \in {LOAD, LOAD_PREFS} /\ proc[p].pc = "done")
         => /\ proc[p].contents = proc[p].opened
            /\ proc[p].opened # <<>> => proc[p].opened \in offered[FinalPath(p)]
    /\ (proc[p].op = LOAD /\ proc[p].pc = "done" /\ proc[p].result.type \in {"Ok", "ParseError"})
         => /\ proc[p].opened # <<>>
            /\ proc[p].result = (IF from_str(proc[p].opened).ok
                                 THEN Ok(from_str(proc[p].opened).val) ELSE ParseError)

\* a save of the preferences is in the middle of writing its temporary
\* file, over an earlier file, and a load that began after it has read the
\* whole earlier content
C2_Witness ==
  \E p, q \in Procs :
    /\ proc[p].op = SAVE_PREFS /\ proc[p].pc = "write" /\ proc[p].calls > 0
    /\ proc[p].before.exists
    /\ Exists(prefs_temp_path)
    /\ Content(prefs_temp_path) \notin {<<>>, Payload(p)}
    /\ proc[q].op = LOAD_PREFS /\ proc[q].pc = "done"
    /\ proc[q].contents = proc[p].before.data
    /\ proc[q].contents # Payload(p)

C4_SaveThenLoadReturnsTheme ==
  [][\A p \in Procs :
       (Completes(p, LOAD_PREFS) /\ PrefsPath \in DOMAIN committed)
         => /\ committed[PrefsPath].theme \in {S_light, S_dark, S_system}
            /\ IF faults' = faults
               THEN proc'[p].result = Ok([theme |-> committed[PrefsPath].theme])
               ELSE proc'[p].result \in {Ok(DefaultPreferences),
                                         ErrString("Failed to create app data directory"),
                                         ErrString("Failed to read preferences file")}]_vars

\* a load has returned the theme dark that was saved over a file that
\* could not be parsed
C4_Witness ==
  \E p \in Procs :
    /\ proc[p].op = LOAD_PREFS /\ proc[p].pc = "done"
    /\ proc[p].result = Ok([theme |-> S_dark])
    /\ PrefsPath \in DOMAIN committed
    /\ \E c \in offered[PrefsPath] : ~PreferencesFromStr(c).ok

\* C5: save_preferences with a theme other than light, dark and system
\* fails with the validation error in its first step and leaves the
\* directories, the directory entries and the files as they were
C5_InvalidThemeChangesNothing ==
  [][\A p \in Procs :
       (/\ proc[p].pc = "idle" /\ proc'[p].op = SAVE_PREFS
        /\ args[p].theme \notin {Str(<<"l", "i", "g", "h", "t">>), Str(<<"d", "a", "r", "k">>),
                                 Str(<<"s", "y", "s", "t", "e", "m">>)})
         => /\ proc'[p].pc = "done"
            /\ proc'[p].result =
                 ErrString("Invalid theme: must be 'light', 'dark', or 'system'")
            /\ UNCHANGED <<dirs, names, inodes>>]_vars

\* a save with the theme blue has failed; the file of an earlier run is
\* there with its content and there is no temporary file
C5_Witness ==
  \E p \in Procs :
    /\ proc[p].op = SAVE_PREFS /\ proc[p].pc = "done"
    /\ proc[p].preferences.theme = S_blue
    /\ proc[p].result.type = "Err"
    /\ proc[p].before.exists
    /\ FinalState(PrefsPath) = proc[p].before
    /\ ~Exists(prefs_temp_path)

\* a key that is empty, longer than 100 bytes, holds a byte other than a
\* letter, a digit, "_", "-" and ".", or holds ".."
BadKey(f) ==
  \/ f = <<>>
  \/ Size(f) > 100
  \/ \E i \in DOMAIN f : f[i].c \notin WordBytes \cup {"."}
  \/ \E i \in DOMAIN f : f[i].c = "." /\ f[i].n >= 2

\* C6: save_emergency_data with such a key fails with ValidationError in
\* its first step and leaves the directories, the directory entries and
\* the files as they were
C6_BadKeyChangesNothing ==
  [][\A p \in Procs :
       (proc[p].pc = "idle" /\ proc'[p].op = SAVE /\ BadKey(args[p].filename))
         => /\ proc'[p].pc = "done"
            /\ proc'[p].result.type = "ValidationError"
            /\ UNCHANGED <<dirs, names, inodes>>]_vars

\* a save with the key ../etc/passwd has failed with ValidationError and
\* no directory exists
C6_Witness ==
  \E p \in Procs :
    /\ proc[p].op = SAVE /\ proc[p].pc = "done"
    /\ proc[p].filename = F_traversal
    /\ proc[p].result.type = "ValidationError"
    /\ dirs = {} /\ DOMAIN names = {}

\* C7: save_emergency_data with a valid key and a document whose compact
\* text is longer than 10,485,760 bytes fails with DataTooLarge of that
\* cap in its first step and leaves the directories, the directory entries
\* and the files as they were; with a compact text of at most the cap it
\* never fails with DataTooLarge
C7_OversizeRejectedBeforeWrite ==
  [][\A p \in Procs :
       (proc'[p].op = SAVE /\ validate_filename(args[p].filename) = "ok")
         => /\ (proc[p].pc = "idle" /\ Size(to_string(args[p].data)) > 10485760)
                 => /\ proc'[p].pc = "done"
                    /\ proc'[p].result = DataTooLarge(10485760)
                    /\ UNCHANGED <<dirs, names, inodes>>
            /\ Size(to_string(args[p].data)) <= 10485760
                 => proc'[p].result.type # "DataTooLarge"]_vars

\* a save of a document one byte over the cap has failed with DataTooLarge
\* and no directory exists
C7_Witness ==
  \E p \in Procs :
    /\ proc[p].op = SAVE /\ proc[p].pc = "done"
    /\ Size(to_string(args[p].data)) = 10485761
    /\ proc[p].result = DataTooLarge(10485760)
    /\ dirs = {} /\ DOMAIN names = {}

\* C8: every recovery file <root>/recovery/<key>.json is at most
\* 10,485,760 bytes long
C8_RecoveryFileWithinCap ==
  \A q \in DOMAIN names :
    (q.dir = RecoveryDir /\ extension(q) = S_json) => Size(Content(q)) <= 10485760

\* C9: a load that ends while its final path does not exist, no I/O
\* operation of it failing, returns the record with theme system for the
\* preferences and FileNotFound for a valid key of the recovery store; and
\* no step of a load changes a directory entry or a file
C9_AbsentFile ==
  [][\A p \in Procs :
       /\ (Completes(p, LOAD_PREFS) /\ ~Exists(PrefsPath) /\ faults' = faults)
            => proc'[p].result = Ok([theme |-> Str(<<"s", "y", "s", "t", "e", "m">>)])
       /\ (/\ Completes(p, LOAD) /\ ~Exists(file_path(proc'[p].filename))
           /\ validate_filename(proc'[p].filename) = "ok" /\ faults' = faults)
            => proc'[p].result = FileNotFound
       /\ (proc'[p].op \in {LOAD, LOAD_PREFS} /\ proc'[p] # proc[p])
            => UNCHANGED <<names, inodes>>]_vars

\* a load of a record that a sweep removed has failed with FileNotFound,
\* no I/O operation having failed, and the file is still absent
C9_Witness ==
  \E p \in Procs :
    /\ proc[p].op = LOAD /\ proc[p].pc = "done"
    /\ proc[p].result = FileNotFound
    /\ faults = 0
    /\ file_path(proc[p].filename) \in DOMAIN offered
    /\ ~Exists(file_path(proc[p].filename))

\* the age of a modification time at the sweep's now
Age(p, mtime) == proc[p].now - mtime

\* C10 as stated: after a sweep has returned, every file that remains in
\* the recovery directory is at most 604800 seconds old and every file
\* removed was older
C10_EveryRemainingFileIsRecent ==
  \A p \in Procs :
    (proc[p].op = CLEANUP /\ proc[p].pc = "done" /\ proc[p].result.type = "Ok")
      => /\ \A q \in DOMAIN names : q.dir = RecoveryDir => Age(p, Mtime(q)) <= 604800
         /\ \A r \in proc[p].removed : Age(p, r.mtime) > 604800

\* C10: after a sweep has returned, every .json file that remains in the
\* recovery directory, and whose metadata and removal did not fail, is at
\* most 604800 seconds old; every file removed was a .json file older than
\* that; and the count returned is the number of files removed
C10_RemainingRecordsAreRecent ==
  \A p \in Procs :
    (proc[p].op = CLEANUP /\ proc[p].pc = "done" /\ proc[p].result.type = "Ok")
      => /\ \A q \in DOMAIN names :
              (q.dir = RecoveryDir /\ extension(q) = S_json /\ q \notin proc[p].failed)
                => Age(p, Mtime(q)) <= 604800
         /\ \A r \in proc[p].removed :
              /\ Age(p, r.mtime) > 604800
              /\ extension(r.path) = S_json
              /\ ~Exists(r.path)
         /\ proc[p].result = Ok(Cardinality(proc[p].removed))

\* a sweep has returned and a record of exactly 604800 seconds is still
\* there
C10_Witness ==
  \E p \in Procs :
    /\ proc[p].op = CLEANUP /\ proc[p].pc = "done" /\ proc[p].result.type = "Ok"
    /\ \E q \in DOMAIN names :
         /\ q.dir = RecoveryDir /\ extension(q) = S_json
         /\ Age(p, Mtime(q)) = 604800

\* ---------------------------------------------- the quick pane properties
\* a step of each command, whatever the outcome of its calls
ShowStep == \E o \in Outcomes : show_quick_pane_run(o)
HideStep == \E o \in Outcomes : hide_quick_pane_run(o)
DismissStep == \E o \in Outcomes : dismiss_quick_pane_run(o)

\* C11: a show_quick_pane that succeeds with application P in front,
\* directly followed by a dismiss_quick_pane that succeeds, reactivates
\* exactly P; and in any sequence of commands the application a
\* dismiss_quick_pane reactivates is the one that was in front when the
\* quick pane last went from hidden to visible.
C11_DismissReactivatesAppOfLastShow ==
  [][DismissStep =>
       /\ (/\ last.op = "show_quick_pane"
           /\ last.effect.result = Ok(Unit)
           /\ last.before.frontmost # NoApp
           /\ last'.effect.result = Ok(Unit))
            => last'.effect.lookup = last.before.frontmost
       /\ last'.effect.lookup # NoApp => last'.effect.lookup = shown_with]_vars

\* C12: from every state where the quick pane is hidden, toggle_quick_pane
\* and show_quick_pane have the same result, leave the same visibility and
\* the same PREVIOUS_APP_PID and make the same calls on the window, for
\* every outcome of those calls and whether or not the window exists.
C12_ToggleFromHiddenIsShow ==
  (~visible /\ main.pc = "idle")
    => \A o \in Outcomes : toggle_quick_pane(o) = show_quick_pane(o)

\* C13: from every state where the quick pane is visible, toggle_quick_pane
\* and dismiss_quick_pane have the same result, leave the same visibility,
\* leave PREVIOUS_APP_PID at -1 and reactivate the same application, for
\* every outcome of is_visible and hide.
C13_ToggleFromVisibleIsDismiss ==
  (visible /\ main.pc = "idle")
    => \A o \in Outcomes :
         /\ toggle_quick_pane(o) = dismiss_quick_pane(o)
         /\ dismiss_quick_pane(o).PREVIOUS_APP_PID = -1

\* C14: from a state where the quick pane is visible, hide_quick_pane,
\* dismiss_quick_pane and toggle_quick_pane, their calls succeeding, all
\* leave the quick pane hidden with the same PREVIOUS_APP_PID.
C14_ThreeWaysToHideAgree ==
  (visible /\ main.pc = "idle")
    => \A o \in Outcomes :
         (o.is_visible /\ o.hide)
           => /\ ~hide_quick_pane(o).visible
              /\ ~dismiss_quick_pane(o).visible
              /\ ~toggle_quick_pane(o).visible
              /\ hide_quick_pane(o).PREVIOUS_APP_PID
                   = dismiss_quick_pane(o).PREVIOUS_APP_PID
              /\ dismiss_quick_pane(o).PREVIOUS_APP_PID
                   = toggle_quick_pane(o).PREVIOUS_APP_PID

\* C15: whenever dismiss_quick_pane returns, with Ok or with Err, hide
\* having succeeded or not, PREVIOUS_APP_PID is -1.
C15_DismissLeavesSentinel ==
  [][DismissStep => PREVIOUS_APP_PID' = -1]_vars

\* C16: no step of show_quick_pane, hide_quick_pane, dismiss_quick_pane or
\* of another toggle_quick_pane happens between toggle_quick_pane's read of
\* the visibility and the branch it takes, so that the value it branches on
\* is the visibility at that moment.
C16_ToggleIsAtomic ==
  [][main.pc = "toggle_quick_pane"
       => /\ ~(ShowStep \/ HideStep \/ DismissStep)
          /\ main.is_visible = visible]_vars

\* C17: show_quick_pane while the quick pane is visible leaves
\* PREVIOUS_APP_PID as it was, leaves the quick pane visible, and still
\* calls set_focus.
C17_ShowWhileVisibleKeepsHolder ==
  [][(ShowStep /\ visible /\ last'.effect.result = Ok(Unit))
       => /\ PREVIOUS_APP_PID' = PREVIOUS_APP_PID
          /\ visible'
          /\ last'.effect.calls = <<"show", "set_focus">>]_vars

\* C18: after a show_quick_pane, or a toggle_quick_pane of the hidden quick
\* pane, that finds no frontmost application, PREVIOUS_APP_PID is -1, also
\* when an earlier show has captured an application and hide_quick_pane has
\* hidden the quick pane since; and the command does not fail for it.
C18_NoFrontmostLeavesSentinel ==
  [][(/\ frontmost = NoApp
      /\ \/ ShowStep
         \/ \E o \in Outcomes : toggle_quick_pane_run(o) /\ ~main.is_visible
      /\ last'.effect.calls = <<"show", "set_focus">>)
       => /\ PREVIOUS_APP_PID' = -1
          /\ last'.effect.result
               \in {Ok(Unit), ErrString("Failed to focus window")}]_vars

\* C19: PREVIOUS_APP_PID is consumed only in a step that takes the quick
\* pane from visible to hidden: a dismiss_quick_pane of the hidden quick
\* pane reactivates no application and leaves PREVIOUS_APP_PID as it was.
C19_ConsumedOnlyWhenHiding ==
  [][/\ (PREVIOUS_APP_PID # -1 /\ PREVIOUS_APP_PID' = -1)
          => (visible /\ ~visible')
     /\ (DismissStep /\ ~visible)
          => /\ last'.effect.lookup = NoApp
             /\ PREVIOUS_APP_PID' = PREVIOUS_APP_PID]_vars

\* C20: hide_quick_pane leaves PREVIOUS_APP_PID as it was and reactivates
\* no application, in every state and for every outcome of hide.
C20_HideKeepsHolder ==
  [][HideStep
       => /\ PREVIOUS_APP_PID' = PREVIOUS_APP_PID
          /\ last'.effect.lookup = NoApp
          /\ frontmost' = frontmost]_vars

\* hide_quick_pane has hidden the visible quick pane while an application
\* was captured
C20_Witness ==
  /\ last.op = "hide_quick_pane"
  /\ last.effect.result = Ok(Unit)
  /\ last.before.visible
  /\ ~visible
  /\ last.before.PREVIOUS_APP_PID \in Pids
  /\ PREVIOUS_APP_PID = last.before.PREVIOUS_APP_PID

\* ------------------------------------- the store properties, continued
\* C21: with a single writer, a save_emergency_data that fails while it
\* creates or writes its temporary file returns IoError and leaves the final
\* file as it was when the save began; one whose rename fails returns
\* IoError, leaves the final file as it was and leaves the temporary file
\* in place; one that succeeds leaves no temporary file of its key.
C21_FailedSaveKeepsFinalFile ==
  [][\A p \in Procs :
       Completes(p, SAVE) =>
         /\ proc[p].pc \in {"create", "write"}
              => /\ proc'[p].result = IoError
                 /\ FinalState(file_path(proc[p].filename))' = proc[p].before
         /\ (proc[p].pc = "rename" /\ proc'[p].result # Ok(Unit))
              => /\ proc'[p].result = IoError
                 /\ FinalState(file_path(proc[p].filename))' = proc[p].before
                 /\ Exists(temp_path(proc[p].filename))'
         /\ (proc[p].pc = "rename" /\ proc'[p].result = Ok(Unit))
              => ~Exists(temp_path(proc[p].filename))']_vars

\* the rename of a save has failed: the final file holds the document of an
\* earlier save and the complete new payload is in the temporary file
C21_Witness ==
  \E p \in Procs :
    /\ proc[p].op = SAVE /\ proc[p].pc = "done" /\ proc[p].result = IoError
    /\ proc[p].before.exists
    /\ FinalState(file_path(proc[p].filename)) = proc[p].before
    /\ Exists(temp_path(proc[p].filename))
    /\ Content(temp_path(proc[p].filename)) = Payload(p)
    /\ Payload(p) # proc[p].before.data

\* C22: when two save_emergency_data calls for one key run concurrently
\* and both have finished, the final file holds the payload of the save
\* whose rename was executed last, and a save that returned an error has
\* not made its own payload the content of the final file.
C22_LastRenameWins ==
  \A p, q \in Procs :
    (/\ p # q
     /\ proc[p].op = SAVE /\ proc[p].pc = "done"
     /\ proc[q].op = SAVE /\ proc[q].pc = "done"
     /\ proc[p].filename = proc[q].filename
     /\ Payload(p) # Payload(q))
      => /\ file_path(proc[p].filename) \in DOMAIN committed
              => FinalState(file_path(proc[p].filename)) =
                   [exists |-> TRUE,
                    data |-> to_string_pretty(committed[file_path(proc[p].filename)])]
         /\ (proc[p].result # Ok(Unit) /\ proc[p].before.data # Payload(p))
              => FinalState(file_path(proc[p].filename)).data # Payload(p)

\* C23: in every step of cleanup_old_recovery_files the count grows by the
\* number of files the step deletes; once the directory is read the sweep
\* goes through all its entries and returns Ok with that count, whether or
\* not the metadata of a file cannot be read, its removal fails, or the
\* file is gone by the time it is looked at or removed: such a file is not
\* counted.
C23_SweepCountsWhatItDeletes ==
  [][\A p \in Procs :
       /\ (proc[p].op = CLEANUP /\ proc'[p].op = CLEANUP /\ proc'[p] # proc[p])
            => /\ proc'[p].removed_count - proc[p].removed_count
                    = Cardinality(DOMAIN names \ DOMAIN names')
               /\ proc'[p].failed # proc[p].failed
                    => /\ proc'[p].removed_count = proc[p].removed_count
                       /\ proc'[p].pc = "entry"
               /\ (proc[p].pc = "remove" /\ ~Exists(proc[p].path))
                    => /\ proc'[p].removed_count = proc[p].removed_count
                       /\ proc'[p].pc = "entry"
       /\ (Completes(p, CLEANUP) /\ proc[p].pc \in {"entry", "remove"})
            => /\ proc[p].entries = {}
               /\ proc'[p].result = Ok(proc[p].removed_count)]_vars

\* two sweeps have run at once over one old record: one has removed it and
\* returns Ok(1); the other had it among its entries, met it gone, and
\* returns Ok(0)
C23_Witness ==
  \E p, q \in Procs :
    /\ proc[p].op = CLEANUP /\ proc[p].pc = "done" /\ proc[p].result = Ok(1)
    /\ proc[q].op = CLEANUP /\ proc[q].pc = "done" /\ proc[q].result = Ok(0)
    /\ proc[q].failed # {}
    /\ proc[p].removed # {}
    /\ \A r \in proc[p].removed : r.path \in proc[q].failed /\ ~Exists(r.path)

\* the filenames that validate_filename accepts
ValidKeys == {k \in FileNames : validate_filename(k) = "ok"}

\* the files of a key: its final file, and its temporary file at the
\* final path with the extension replaced by tmp
KeyFiles ==
  [k \in ValidKeys |-> {file_path(k), with_extension(file_path(k), S_tmp)}]

\* C24: in any interleaving, a step of a save_emergency_data of a valid key
\* leaves the final file and the temporary file (the final path with its
\* extension replaced by tmp) of every other valid key as they were, and a
\* step of save_preferences leaves the recovery files as they were.
C24_SavesOfOtherKeysDoNotInterfere ==
  [][\A p \in Procs :
       /\ (/\ proc'[p] # proc[p]
           /\ proc'[p].op = SAVE
           /\ proc'[p].filename \in ValidKeys)
            => \A k \in ValidKeys \ {proc'[p].filename} :
                 \A path \in KeyFiles[k] : FinalState(path)' = FinalState(path)
       /\ (proc'[p] # proc[p] /\ proc'[p].op = SAVE_PREFS)
            => /\ {q \in DOMAIN names' : q.dir = RecoveryDir}
                    = {q \in DOMAIN names : q.dir = RecoveryDir}
               /\ \A q \in DOMAIN names :
                    q.dir = RecoveryDir => Content(q)' = Content(q)]_vars

\* saves of the keys a.b and a are in flight at once: the temporary file
\* of a.b is partly written, that of a is complete and about to be renamed
C24_Witness ==
  \E p, q \in Procs :
    /\ proc[p].op = SAVE /\ proc[p].pc = "write" /\ proc[p].calls > 0
    /\ proc[p].filename = Str(<<"a", ".", "b">>)
    /\ proc[q].op = SAVE /\ proc[q].pc = "rename"
    /\ proc[q].filename = F_a
    /\ Exists(temp_path(proc[p].filename))
    /\ Exists(temp_path(proc[q].filename))
    /\ Content(temp_path(proc[q].filename)) = Payload(q)
    /\ temp_path(proc[p].filename) # temp_path(proc[q].filename)

\* C25: when cleanup_old_recovery_files runs concurrently with
\* save_emergency_data for the same key, the file the sweep removes is, at
\* the moment it is removed, older than seven days: a record whose save
\* has completed within the last seven days is never removed.
C25_SweepRemovesOnlyOldContent ==
  [][\A p \in Procs :
       (/\ proc[p].op = CLEANUP /\ proc[p].pc = "remove"
        /\ proc'[p] # proc[p]
        /\ Exists(proc[p].path)
        /\ ~Exists(proc[p].path)')
         => is_old(Mtime(proc[p].path), proc[p].now)]_vars

\* -------------------------------- the quick pane properties, continued
\* a step in which toggle_quick_pane returns
ToggleReturns ==
  /\ main'.pc = "idle"
  /\ \E o \in Outcomes : toggle_quick_pane_is_visible(o) \/ toggle_quick_pane_run(o)

\* C26: when show_quick_pane or toggle_quick_pane returns an error (the
\* window is not found, or is_visible, show or set_focus fails),
\* PREVIOUS_APP_PID is as it was before the call.
C26_ErrorKeepsHolder ==
  [][((ShowStep \/ ToggleReturns) /\ last'.effect.result.type = "Err")
       => PREVIOUS_APP_PID' = PREVIOUS_APP_PID]_vars

\* C27: a captured pid is reactivated at most once.  A dismiss_quick_pane
\* or toggle_quick_pane that attempts a reactivation has read a pid greater
\* than 0, attempts it for that pid, and leaves -1 in the same step; no
\* other step attempts one; and PREVIOUS_APP_PID leaves -1 only by the store
\* of a show_quick_pane or toggle_quick_pane.  So between two stores at
\* most one command finds a pid to reactivate.
C27_ReactivatedAtMostOnce ==
  [][/\ (DismissStep \/ ToggleReturns)
          => (last'.effect.lookup # NoApp
                => /\ PREVIOUS_APP_PID > 0
                   /\ last'.effect.lookup = PREVIOUS_APP_PID
                   /\ PREVIOUS_APP_PID' = -1)
     /\ ~(DismissStep \/ ToggleReturns)
          => (last' = last \/ last'.effect.lookup = NoApp)
     /\ (PREVIOUS_APP_PID = -1 /\ PREVIOUS_APP_PID' # -1)
          => (ShowStep \/ ToggleReturns)]_vars

\* dismiss_quick_pane has swapped out the pid captured while another
\* application was in front since, and has brought the captured one back
C27_Witness ==
  /\ last.op = "dismiss_quick_pane"
  /\ last.before.PREVIOUS_APP_PID \in Pids
  /\ last.effect.lookup = last.before.PREVIOUS_APP_PID
  /\ last.before.frontmost # last.effect.lookup
  /\ frontmost = last.effect.lookup
  /\ PREVIOUS_APP_PID = -1

====
